---- MODULE Spec2Model ----
(***************************************************************************)
(* The muxgeist daemon (src/muxgeist-daemon.c): a bounded registry of      *)
(* tmux sessions, the pane capture engine that rebuilds each session's     *)
(* scrollback, the session scanner, the request server and the poll loop.  *)
(*                                                                         *)
(* Strings are sequences of one-character strings.  The bytes of a pane    *)
(* capture are kept run-length encoded: a scrollback is a sequence of      *)
(* chunks [kind, pane, title, n], n being the number of bytes.             *)
(***************************************************************************)
EXTENDS Integers, Sequences, FiniteSets, TLC

\* ------------------------------------------------------------------ bounds
\* Poll cycles (iterations of the main loop that start a scan) explored.
MaxCycles == 2
\* Changes of the external multiplexer's state explored.
MaxChanges == 1

\* ------------------------------------------------------- program constants
MAX_SESSIONS == 32
MAX_BUFFER_SIZE == 16384
\* sizeof(session_id), sizeof(current_pane), PATH_MAX
SESSION_ID_SIZE == 64
PANE_SIZE == 16
PATH_MAX == 4096
\* char pane_list[2048]; char pane_id[32]; char pane_title[64]
PANE_LIST_SIZE == 2048
PANE_ID_SIZE == 32
PANE_TITLE_SIZE == 64
\* char session_info[256]
SESSION_INFO_SIZE == 256
\* the reserve of the pane loop and the noise threshold
RESERVE == 500
NOISE == 10
\* timeout.tv_sec
SELECT_TIMEOUT == 2

\* ------------------------------------------------------------------ strings
NL == "\n"
NULL == <<>>   \* strtok never returns an empty token, so <<>> stands for NULL

Min(a, b) == IF a < b THEN a ELSE b

\* The first n characters of s: what strncpy(dst, s, n) leaves in a buffer
\* whose remaining bytes are zero, and what a bounded read keeps.
Take(s, n) == SubSeq(s, 1, Min(n, Len(s)))

Drop(s, n) == SubSeq(s, n + 1, Len(s))

\* strchr: the index of the first c in s, 0 when there is none.
StrChr(s, c) ==
  IF \E i \in 1..Len(s) : s[i] = c
  THEN CHOOSE i \in 1..Len(s) : s[i] = c /\ \A j \in 1..(i - 1) : s[j] # c
  ELSE 0

\* strstr(s, needle) != NULL
StrStr(s, needle) ==
  \E i \in 1..(Len(s) - Len(needle) + 1) :
     SubSeq(s, i, i + Len(needle) - 1) = needle

IsPrefix(p, s) == Len(p) <= Len(s) /\ SubSeq(s, 1, Len(p)) = p

\* %d / %ld of a non-negative number.
RECURSIVE Dec(_)
Dec(n) ==
  LET d == <<"0", "1", "2", "3", "4", "5", "6", "7", "8", "9">>
  IN IF n < 10 THEN <<d[n + 1]>> ELSE Dec(n \div 10) \o <<d[(n % 10) + 1]>>

\* strtok(s, "\n") on the text s (for strtok(NULL, ..) s is the saved rest):
\* skips leading delimiters, returns the token and the text after its
\* delimiter, which the next strtok(NULL, ..) continues from.
RECURSIVE SkipNL(_)
SkipNL(s) == IF s # <<>> /\ s[1] = NL THEN SkipNL(Drop(s, 1)) ELSE s

StrTok(s) ==
  LET t == SkipNL(s)
      k == StrChr(t, NL)
  IN IF t = <<>> THEN [tok |-> NULL, rest |-> <<>>]
     ELSE IF k = 0 THEN [tok |-> t, rest |-> <<>>]
     ELSE [tok |-> SubSeq(t, 1, k - 1), rest |-> Drop(t, k)]

\* Where the tokens of a text begin: after a delimiter or at the start.
TokenStarts(s) == {i \in 1..Len(s) : s[i] # NL /\ (i = 1 \/ s[i - 1] = NL)}

\* The token that begins at i: up to the next delimiter or the end.
TokenAt(s, i) ==
  SubSeq(s, i, CHOOSE j \in i..Len(s) :
                 /\ j = Len(s) \/ s[j + 1] = NL
                 /\ \A m \in i..j : s[m] # NL)

\* All tokens of a text, in order: what repeated strtok calls return.
Tokens(s) ==
  LET starts == TokenStarts(s)
  IN [k \in 1..Cardinality(starts) |->
        TokenAt(s, CHOOSE i \in starts :
                     Cardinality({j \in starts : j < i}) = k - 1)]

\* execute_tmux_command: reads at most size - 1 bytes of the command's
\* output and removes one trailing newline.
ExecOutput(raw, size) ==
  LET o == Take(raw, size - 1)
  IN IF Len(o) > 0 /\ o[Len(o)] = NL THEN SubSeq(o, 1, Len(o) - 1) ELSE o

\* --------------------------------------------------------------- scrollback
Chunk(kind, pane, title, n) ==
  [kind |-> kind, pane |-> pane, title |-> title, n |-> n]

RECURSIVE ChunksLen(_)
ChunksLen(cs) == IF cs = <<>> THEN 0 ELSE cs[1].n + ChunksLen(Drop(cs, 1))

\* The first n bytes of a chunked text.
RECURSIVE TakeChunks(_, _)
TakeChunks(cs, n) ==
  IF cs = <<>> \/ n <= 0 THEN <<>>
  ELSE IF cs[1].n <= n THEN <<cs[1]>> \o TakeChunks(Drop(cs, 1), n - cs[1].n)
  ELSE <<[cs[1] EXCEPT !.n = n]>>

\* ------------------------------------------------- the external multiplexer
\* The state of tmux as the daemon's queries see it: the sessions it lists,
\* and for each session its panes (id, title, running command, bytes of
\* screen content), the active pane, the working directory and the pane id
\* that display-message prints.  spawn_fail names the queries whose popen
\* fails for this session.
Main == <<"m", "a", "i", "n">>
Dev == <<"d", "e", "v">>
LongName == [i \in 1..70 |-> "a"]
Numbered(i) == <<"s">> \o Dec(i)

Box == <<"b", "o", "x">>
Bash == <<"b", "a", "s", "h">>
Muxgeist == <<"m", "u", "x", "g", "e", "i", "s", "t">>
P00 == <<"0", ".", "0">>
P01 == <<"0", ".", "1">>
P02 == <<"0", ".", "2">>
HomeU == <<"/", "h", "o", "m", "e", "/", "u">>
LongPath == [i \in 1..300 |-> IF i % 10 = 1 THEN "/" ELSE "d"]
PaneId0 == <<"%", "0">>
PaneId1 == <<"%", "1">>
Tmp == <<"/", "t", "m", "p">>

Pane(id, title, cmd, size) ==
  [id |-> id, title |-> title, cmd |-> cmd, size |-> size]

Session(panes, active, cwd, fails) ==
  [panes |-> panes, active |-> active, cwd |-> cwd, pane |-> PaneId0,
   spawn_fail |-> fails]

\* a target tmux does not resolve: every query prints nothing
Gone == [panes |-> <<>>, active |-> 0, cwd |-> <<>>, pane |-> <<>>,
         spawn_fail |-> {}]

OnePane == Session(<<Pane(P00, Box, Bash, 100)>>, 1, HomeU, {})
NoisePane == Session(<<Pane(P00, Box, Bash, 10)>>, 1, HomeU, {})
SelfActive ==
  Session(<<Pane(P00, Muxgeist, Muxgeist, 200), Pane(P01, Box, Bash, 5)>>,
          1, HomeU, {})
SelfIdle ==
  Session(<<Pane(P00, Box, Bash, 300), Pane(P01, Muxgeist, Muxgeist, 200)>>,
          1, HomeU, {})
HugePane ==
  Session(<<Pane(P00, Box, Bash, 20000), Pane(P01, Box, Bash, 100),
            Pane(P02, Box, Bash, 100)>>,
          1, HomeU, {})
TwoBig ==
  Session(<<Pane(P00, Box, Bash, 8000), Pane(P01, Box, Bash, 9000)>>,
          2, HomeU, {})
DeepCwd == Session(<<Pane(P00, Box, Bash, 100)>>, 1, LongPath, {})
\* popen fails for the captures / for the pane listing
NoCapture == Session(<<Pane(P00, Box, Bash, 100)>>, 1, HomeU, {"capture"})
NoListing == Session(<<Pane(P00, Box, Bash, 100)>>, 1, HomeU, {"list_panes"})
\* popen fails for the pane id query / for the working directory query
PaneQueryFails ==
  [pane |-> PaneId1, cwd |-> HomeU, active |-> 1,
   panes |-> <<Pane(P00, Box, Bash, 100)>>, spawn_fail |-> {"pane_q"}]
CwdQueryFails ==
  [pane |-> PaneId0, cwd |-> Tmp, active |-> 1,
   panes |-> <<Pane(P00, Box, Bash, 100)>>, spawn_fail |-> {"cwd_q"}]

World(names, scen, fail_ls) ==
  [names |-> names, scen |-> scen, fail_ls |-> fail_ls]

Worlds ==
  { World(<<>>, <<>>, FALSE),
    World(<<>>, <<>>, TRUE),
    World(<<Main>>, <<OnePane>>, FALSE),
    World(<<Main>>, <<NoisePane>>, FALSE),
    World(<<Main>>, <<SelfActive>>, FALSE),
    World(<<Main>>, <<SelfIdle>>, FALSE),
    World(<<Main>>, <<HugePane>>, FALSE),
    World(<<Main>>, <<TwoBig>>, FALSE),
    World(<<Main>>, <<DeepCwd>>, FALSE),
    World(<<Main>>, <<NoCapture>>, FALSE),
    World(<<Main, Dev>>, <<NoListing, PaneQueryFails>>, FALSE),
    World(<<Main, Dev>>, <<OnePane, OnePane>>, FALSE),
    World(<<Main, Dev>>, <<Gone, CwdQueryFails>>, FALSE),
    World(<<LongName>>, <<OnePane>>, FALSE),
    World([i \in 1..(MAX_SESSIONS + 1) |-> Numbered(i)],
          [i \in 1..(MAX_SESSIONS + 1) |-> Gone], FALSE) }

\* The lines from the i-th on, each followed by a newline.
RECURSIVE JoinFrom(_, _)
JoinFrom(ls, i) ==
  IF i > Len(ls) THEN <<>> ELSE ls[i] \o <<NL>> \o JoinFrom(ls, i + 1)

JoinLines(ls) == JoinFrom(ls, 1)

\* tmux list-sessions -F '#{session_name}'
ListSessionsRaw(w) == JoinLines(w.names)

\* -t <id>: the session of that name, else one the id is a prefix of.
Target(w, id) ==
  LET exact == {i \in 1..Len(w.names) : w.names[i] = id}
      pref == {i \in 1..Len(w.names) : IsPrefix(id, w.names[i])}
      first(S) == CHOOSE i \in S : \A j \in S : i <= j
  IN IF exact # {} THEN w.scen[first(exact)]
     ELSE IF pref # {} THEN w.scen[first(pref)]
     ELSE Gone

\* tmux list-panes -t <id> -F '#{window_index}.#{pane_index}:#{pane_title}:#{pane_current_command}'
ListPanesRaw(w, id) ==
  LET ps == Target(w, id).panes
  IN JoinLines([i \in 1..Len(ps) |->
                  ps[i].id \o <<":">> \o ps[i].title \o <<":">> \o ps[i].cmd])

\* tmux display-message -t <id> -p '#{pane_id}' / '#{pane_current_path}'
DisplayPaneRaw(w, id) ==
  LET s == Target(w, id) IN IF s.active = 0 THEN <<>> ELSE s.pane \o <<NL>>

DisplayCwdRaw(w, id) ==
  LET s == Target(w, id) IN IF s.active = 0 THEN <<>> ELSE s.cwd \o <<NL>>

NoContent == Chunk("none", <<>>, <<>>, 0)

\* tmux capture-pane -t <id> -p: the screen of the session's active pane
CaptureActiveRaw(w, id) ==
  LET s == Target(w, id)
  IN IF s.active = 0 THEN NoContent
     ELSE Chunk("content", s.panes[s.active].id, s.panes[s.active].title,
                s.panes[s.active].size)

\* tmux capture-pane -t <id>:<pane_id> -p: the screen of that pane
CapturePaneRaw(w, id, pane_id) ==
  LET ps == Target(w, id).panes
      hit == {i \in 1..Len(ps) : ps[i].id = pane_id}
  IN IF hit = {} THEN NoContent
     ELSE LET i == CHOOSE j \in hit : TRUE
          IN Chunk("content", ps[i].id, ps[i].title, ps[i].size)

\* fread(buf, 1, size - 1, fp): at most size - 1 bytes of the capture
Fread(raw, size) == [raw EXCEPT !.n = Min(raw.n, size - 1)]

\* ---------------------------------------------------------------- registry
\* memset(session, 0, sizeof(session_context_t))
ZeroSession ==
  [session_id |-> <<>>, current_cwd |-> <<>>, current_pane |-> <<>>,
   last_activity |-> 0, history_count |-> 0, history_index |-> 0,
   scrollback |-> <<>>, scrollback_len |-> 0]

\* find_session comparing only the first strlen(id) characters
find_session_prefix(ss, count, id) ==
  LET hit == {i \in 1..count : IsPrefix(id, ss[i].session_id)}
  IN IF hit = {} THEN 0 ELSE CHOOSE i \in hit : \A j \in hit : i <= j

\* find_session: index of the first entry whose session_id is id, 0 for NULL
find_session(ss, count, id) ==
  LET hit == {i \in 1..count : ss[i].session_id = id}
  IN IF hit = {} THEN 0 ELSE CHOOSE i \in hit : \A j \in hit : i <= j

\* create_session with the capacity test off by one
RegistryFullOffByOne(count) == count > MAX_SESSIONS

RegistryFull(count) == count >= MAX_SESSIONS

\* create_session: the registry after the call and the index of the new
\* entry (0 for NULL)
create_session(ss, count, id, t) ==
  IF RegistryFull(count)
  THEN [sessions |-> ss, count |-> count, idx |-> 0]
  ELSE [sessions |-> Append(SubSeq(ss, 1, count),
                            [ZeroSession EXCEPT
                               !.session_id = Take(id, SESSION_ID_SIZE - 1),
                               !.last_activity = t]),
        count |-> count + 1, idx |-> count + 1]

\* find-or-create as scan_tmux_sessions does it
FindOrCreate(ss, count, id, t) ==
  LET found == find_session(ss, count, id)
  IN IF found # 0 THEN [sessions |-> ss, count |-> count, idx |-> found]
     ELSE create_session(ss, count, id, t)

\* queries whose result code is not looked at
UpdateQueriesIgnoringRc(e, w) ==
  LET p == ExecOutput(DisplayPaneRaw(w, e.session_id), MAX_BUFFER_SIZE)
      c == ExecOutput(DisplayCwdRaw(w, e.session_id), MAX_BUFFER_SIZE)
  IN [e EXCEPT !.current_pane = Take(p, PANE_SIZE - 1),
               !.current_cwd = Take(c, PATH_MAX - 1)]

\* ------------------------------------------------------------ pane capture
\* The two display-message queries of update_session_context.
UpdateQueries(e, w) ==
  LET sf == Target(w, e.session_id).spawn_fail
      p == ExecOutput(DisplayPaneRaw(w, e.session_id), MAX_BUFFER_SIZE)
      c == ExecOutput(DisplayCwdRaw(w, e.session_id), MAX_BUFFER_SIZE)
  IN [e EXCEPT
        !.current_pane = IF "pane_q" \in sf THEN @ ELSE Take(p, PANE_SIZE - 1),
        !.current_cwd = IF "cwd_q" \in sf THEN @ ELSE Take(c, PATH_MAX - 1)]

\* Parse "window.pane:title:command".  junk is what follows pane_id when the
\* line has no colon and fills the buffer, so that no terminator is written.
ParsePane(ln, junk) ==
  LET c1 == StrChr(ln, ":")
      after1 == Drop(ln, c1)
      c2 == StrChr(after1, ":")
  IN IF c1 # 0
     THEN [pane_id |-> Take(SubSeq(ln, 1, c1 - 1), PANE_ID_SIZE - 1),
           pane_title |->
             Take(IF c2 # 0 THEN SubSeq(after1, 1, c2 - 1) ELSE after1,
                  PANE_TITLE_SIZE - 1)]
     ELSE [pane_id |-> Take(ln, PANE_ID_SIZE - 1)
                         \o (IF Len(ln) >= PANE_ID_SIZE - 1 THEN junk ELSE <<>>),
           pane_title |-> <<"s", "h", "e", "l", "l">>]

\* strstr(pane_title, "muxgeist") != NULL
SelfExcluded(title) == StrStr(title, Muxgeist)

\* "\n=== PANE %s (%s) ===\n"
HeaderText(pane_id, pane_title) ==
  <<NL, "=", "=", "=", " ", "P", "A", "N", "E", " ">> \o pane_id \o <<" ", "(">>
    \o pane_title \o <<")", " ", "=", "=", "=", NL>>

\* the noise test with >= in place of >
MeaningfulFromThreshold(content_len) == content_len >= NOISE

Meaningful(content_len) == content_len > NOISE

\* available_space without the byte kept for the terminator
AvailableSpaceNoTerminator(len) == MAX_BUFFER_SIZE - len

\* size_t available_space = sizeof(scrollback) - scrollback_len - 1
AvailableSpace(len) == MAX_BUFFER_SIZE - len - 1

\* The body of the pane loop for a pane whose capture has been read:
\* header, then content cut to the space that remains.
AppendPane(e, pane_id, pane_title, content) ==
  LET header_len == Len(HeaderText(pane_id, pane_title))
      size == MAX_BUFFER_SIZE - e.scrollback_len
      sb1 == TakeChunks(e.scrollback, e.scrollback_len)
               \o <<Chunk("header", pane_id, pane_title,
                          Min(header_len, size - 1))>>
      len1 == IF header_len > 0 /\ e.scrollback_len + header_len < MAX_BUFFER_SIZE
              THEN e.scrollback_len + header_len ELSE e.scrollback_len
      copy_len == Min(content.n, AvailableSpace(len1))
      sb2 == IF copy_len > 0
             THEN TakeChunks(sb1, len1) \o <<[content EXCEPT !.n = copy_len]>>
             ELSE sb1
      len2 == IF copy_len > 0 THEN len1 + copy_len ELSE len1
  IN [e EXCEPT !.scrollback = sb2, !.scrollback_len = len2]

\* while (line != NULL && scrollback_len < sizeof(scrollback) - 500)
PaneLoopCond(ln, len) == ln # NULL /\ len < MAX_BUFFER_SIZE - RESERVE

\* One iteration of the pane loop: the entry after it, whether the pane was
\* counted, and what was observed of the pane.
PaneIteration(e, ln, w, junk) ==
  LET p == ParsePane(ln, junk)
      spawned == "capture" \notin Target(w, e.session_id).spawn_fail
      content == Fread(CapturePaneRaw(w, e.session_id, p.pane_id),
                       MAX_BUFFER_SIZE)
      obs(ex, sp, c) ==
        [pane_id |-> p.pane_id, pane_title |-> p.pane_title,
         excluded |-> ex, spawned |-> sp, content |-> c]
  IN IF SelfExcluded(p.pane_title)
     THEN [e |-> e, counted |-> 0, obs |-> obs(TRUE, FALSE, NoContent)]
     ELSE IF ~spawned
     THEN [e |-> e, counted |-> 0, obs |-> obs(FALSE, FALSE, NoContent)]
     ELSE IF Meaningful(content.n)
     THEN [e |-> AppendPane(e, p.pane_id, p.pane_title, content),
           counted |-> 1, obs |-> obs(FALSE, TRUE, content)]
     ELSE [e |-> e, counted |-> 0, obs |-> obs(FALSE, TRUE, content)]

\* tmux capture-pane -t <session> -p read straight into scrollback
ActiveCapture(e, w) ==
  LET c == Fread(CaptureActiveRaw(w, e.session_id), MAX_BUFFER_SIZE)
  IN IF "capture" \in Target(w, e.session_id).spawn_fail THEN e
     ELSE [e EXCEPT !.scrollback = IF c.n = 0 THEN <<>> ELSE <<c>>,
                    !.scrollback_len = c.n]

\* if (pane_count == 0) capture the active pane
Fallback(e, count, w) == IF count = 0 THEN ActiveCapture(e, w) ELSE e

\* a refresh that appends to what the scrollback holds
ClearScrollbackKeeps(e) == e

\* session->scrollback[0] = '\0'; session->scrollback_len = 0
ClearScrollback(e) == [e EXCEPT !.scrollback = <<>>, !.scrollback_len = 0]

\* strtok(NULL, "\n") in scan_tmux_sessions.  After capture_all_panes has
\* tokenised its own pane_list, strtok's saved position points into that
\* dead stack buffer: the read either still finds the bytes there (intact)
\* or does not (lost).
NextSessionLine(save, ub) ==
  IF save.buf = "pane_list" /\ ub = "lost"
  THEN [tok |-> NULL, rest |-> <<>>]
  ELSE StrTok(save.rest)

\* ---------------------------------------------------------- request server
\* A response is the text snprintf left in response[]: head and tail are
\* characters, body the scrollback bytes between them.  sent is FALSE when
\* the connection was closed without a send.
Reply(head, body, tail) ==
  [sent |-> TRUE, head |-> head, body |-> body, tail |-> tail]

NoReply == [sent |-> FALSE, head |-> <<>>, body |-> <<>>, tail |-> <<>>]

CmdStatus == <<"s", "t", "a", "t", "u", "s">>
CmdList == <<"l", "i", "s", "t">>
CmdContext == <<"c", "o", "n", "t", "e", "x", "t", ":">>

\* the status line counting one session too many
StatusResponseOffByOne(count) ==
  Reply(<<"O", "K", ":", " ">> \o Dec(count + 1) \o <<" ", "s", "e", "s", "s", "i", "o", "n", "s", " ", "t", "r", "a", "c", "k", "e", "d">>,
        <<>>, <<>>)

\* "OK: %d sessions tracked"
StatusResponse(count) ==
  Reply(<<"O", "K", ":", " ">> \o Dec(count) \o <<" ", "s", "e", "s", "s", "i", "o", "n", "s", " ", "t", "r", "a", "c", "k", "e", "d">>,
        <<>>, <<>>)

NotFoundResponse == Reply(<<"E", "R", "R", "O", "R", ":", " ", "S", "e", "s", "s", "i", "o", "n", " ", "n", "o", "t", " ", "f", "o", "u", "n", "d">>, <<>>, <<>>)

UnknownResponse == Reply(<<"E", "R", "R", "O", "R", ":", " ", "U", "n", "k", "n", "o", "w", "n", " ", "c", "o", "m", "m", "a", "n", "d">>, <<>>, <<>>)

\* snprintf(session_info, sizeof(session_info), "%s (%s)\n", id, cwd)
SessionInfo(e) ==
  Take(e.session_id \o <<" ", "(">> \o e.current_cwd \o <<")", NL>>,
       SESSION_INFO_SIZE - 1)

\* the strncat loop over sessions[0 .. count-1], from entry i on
RECURSIVE ListFrom(_, _, _, _)
ListFrom(ss, count, i, acc) ==
  IF i > count THEN acc
  ELSE ListFrom(ss, count, i + 1,
                acc \o Take(SessionInfo(ss[i]), MAX_BUFFER_SIZE - Len(acc) - 1))

ListResponse(ss, count) == Reply(ListFrom(ss, count, 1, <<>>), <<>>, <<>>)

\* "Session: %s\nCWD: %s\nPane: %s\nLast Activity: %ld\nScrollback
\*  Length: %d\nScrollback:\n%s\n" into response[MAX_BUFFER_SIZE]
ContextHead(e) ==
  <<"S", "e", "s", "s", "i", "o", "n", ":", " ">> \o e.session_id
    \o <<NL, "C", "W", "D", ":", " ">> \o e.current_cwd
    \o <<NL, "P", "a", "n", "e", ":", " ">> \o e.current_pane
    \o <<NL, "L", "a", "s", "t", " ", "A", "c", "t", "i", "v", "i", "t", "y", ":", " ">> \o Dec(e.last_activity)
    \o <<NL, "S", "c", "r", "o", "l", "l", "b", "a", "c", "k", " ", "L", "e", "n", "g", "t", "h", ":", " ">> \o Dec(e.scrollback_len)
    \o <<NL, "S", "c", "r", "o", "l", "l", "b", "a", "c", "k", ":", NL>>

ContextResponse(e) ==
  LET cap == MAX_BUFFER_SIZE - 1
      head == Take(ContextHead(e), cap)
      body == TakeChunks(e.scrollback, cap - Len(head))
      used == Len(head) + ChunksLen(body)
  IN Reply(head, body, IF used < cap THEN <<NL>> ELSE <<>>)

\* The dispatch of handle_client_request on the bytes received.
Dispatch(buffer, ss, count) ==
  IF buffer = CmdStatus THEN StatusResponse(count)
  ELSE IF IsPrefix(CmdContext, buffer)
  THEN LET i == find_session(ss, count, Drop(buffer, Len(CmdContext)))
       IN IF i # 0 THEN ContextResponse(ss[i]) ELSE NotFoundResponse
  ELSE IF buffer = CmdList THEN ListResponse(ss, count)
  ELSE UnknownResponse

\* What a client may write on the connection.
Requests ==
  { CmdStatus, CmdList,
    CmdStatus \o <<NL>>,
    <<"b", "o", "g", "u", "s">>,
    CmdContext,
    CmdContext \o Main,
    CmdContext \o <<"g", "h", "o", "s", "t">>,
    CmdContext \o LongName,
    CmdContext \o Take(LongName, SESSION_ID_SIZE - 1) }

\* -------------------------------------------------------------------- state
VARIABLES
  pc,             \* where main is
  running,        \* g_state.running
  sessions,       \* g_state.sessions[0 .. session_count-1]
  session_count,  \* g_state.session_count
  server_socket,  \* "none", "listening" or "closed"
  sock_path,      \* whether /tmp/muxgeist.sock exists
  now,            \* time(NULL)
  tmux,           \* the external multiplexer's state
  line,           \* scan_tmux_sessions: the current token
  strtok_save,    \* strtok's saved position: the buffer it is in, the text left
  cur,            \* index of the session being refreshed
  pline,          \* capture_all_panes: the current token
  pane_count,     \* capture_all_panes: panes captured
  client,         \* the accepted connection: "none", "open", "closed"
  request,        \* the bytes recv returned
  response,       \* what was sent
  cycles,         \* scans started
  changes,        \* changes of tmux
  cycle_lines,    \* history: the lines of this cycle's session listing
  processed,      \* history: lines find-or-create was applied to this cycle
  refreshed,      \* history: lines whose context was refreshed this cycle
  enumerated,     \* history: every line a session listing ever returned
  accepted,       \* history: <<line, index>> find-or-create returned
  dropped,        \* history: lines create_session returned NULL for
  seen,           \* history: the panes of the refresh in progress
  before,         \* history: the entry being refreshed, as it was before
  pending,        \* history: the handler has run since main last tested running
  sig_in_loop,    \* history: the handler has run while main was in its loop
  sig_tested,     \* history: it had when main last tested running
  iter_accepts,   \* history: connections accepted in this iteration
  scanned,        \* history: a scan has completed since the last accept
  gap,            \* history: one had when the last connection was accepted
  conn_sends,     \* history: sends on the accepted connection
  conn_closes     \* history: closes of the accepted connection

vars ==
  <<pc, running, sessions, session_count, server_socket, sock_path, now, tmux,
    line, strtok_save, cur, pline, pane_count, client, request, response,
    cycles, changes, cycle_lines, processed, refreshed, enumerated, accepted,
    dropped, seen, before, pending, sig_in_loop, sig_tested, iter_accepts,
    scanned, gap, conn_sends, conn_closes>>

registry == <<sessions, session_count>>
scanner == <<line, strtok_save, cur, pline, pane_count>>
socket == <<server_socket, sock_path>>
conn == <<client, request, response>>
history == <<cycle_lines, processed, refreshed, enumerated, accepted, dropped>>
signals == <<pending, sig_in_loop, sig_tested>>
serving == <<iter_accepts, scanned, gap, conn_sends, conn_closes>>

NoSave == [buf |-> "none", rest |-> <<>>]

\* where main is while it is in its while loop
LoopPcs == {"loop", "scan_begin", "scan", "panes", "select", "handle"}

\* static muxgeist_state_t g_state = {0}, before main runs
Init ==
  /\ pc = "start"
  /\ running = 0
  /\ sessions = <<>>
  /\ session_count = 0
  /\ server_socket = "none"
  /\ sock_path \in BOOLEAN
  /\ now = 0
  /\ tmux \in Worlds
  /\ line = NULL
  /\ strtok_save = NoSave
  /\ cur = 0
  /\ pline = NULL
  /\ pane_count = 0
  /\ client = "none"
  /\ request = <<>>
  /\ response = NoReply
  /\ cycles = 0
  /\ changes = 0
  /\ cycle_lines = <<>>
  /\ processed = {}
  /\ refreshed = {}
  /\ enumerated = {}
  /\ accepted = {}
  /\ dropped = {}
  /\ seen = <<>>
  /\ before = ZeroSession
  /\ pending = FALSE
  /\ sig_in_loop = FALSE
  /\ sig_tested = FALSE
  /\ iter_accepts = 0
  /\ scanned = FALSE
  /\ gap = FALSE
  /\ conn_sends = 0
  /\ conn_closes = 0

\* signal(SIGINT, signal_handler); signal(SIGTERM, signal_handler)
InstallHandlers ==
  /\ pc = "start"
  /\ pc' = "installed"
  /\ UNCHANGED <<running, registry, socket, now, tmux, scanner, conn, cycles,
                 changes, history, seen, before, signals, serving>>

\* g_state.running = 1
SetRunning ==
  /\ pc = "installed"
  /\ running' = 1
  /\ pc' = "setup"
  /\ UNCHANGED <<registry, socket, now, tmux, scanner, conn, cycles, changes,
                 history, seen, before, signals, serving>>

\* setup_socket: unlink(MUXGEIST_SOCKET_PATH)
UnlinkStale ==
  /\ pc = "setup"
  /\ sock_path' = FALSE
  /\ pc' = "socket"
  /\ UNCHANGED <<running, registry, server_socket, now, tmux, scanner, conn,
                 cycles, changes, history, seen, before, signals, serving>>

\* setup_socket from socket() on, and main's check of its result
SetupSocket ==
  /\ pc = "socket"
  /\ \E res \in {"ok", "socket", "bind", "listen"} :
       /\ sock_path' = (res \in {"ok", "listen"})
       /\ server_socket' = IF res = "ok" THEN "listening"
                           ELSE IF res = "socket" THEN "none" ELSE "closed"
       /\ pc' = IF res = "ok" THEN "loop" ELSE "failed"
  /\ UNCHANGED <<running, registry, now, tmux, scanner, conn, cycles, changes,
                 history, seen, before, signals, serving>>

\* a handler that leaves g_state.running as it is
signal_handler_keeps(r) == r

\* g_state.running after signal_handler has run
signal_handler(r) == 0

\* signal_handler, at any moment once installed
Signal ==
  /\ pc \notin {"start", "done", "failed"}
  /\ running' = signal_handler(running)
  /\ pending' = TRUE
  /\ sig_in_loop' = (sig_in_loop \/ pc \in LoopPcs)
  /\ UNCHANGED <<pc, registry, socket, now, tmux, scanner, conn, cycles,
                 changes, history, seen, before, sig_tested, serving>>

\* while (g_state.running)
LoopTest ==
  /\ pc = "loop"
  /\ IF running # 0
     THEN /\ cycles < MaxCycles
          /\ cycles' = cycles + 1
          /\ pc' = "scan_begin"
     ELSE /\ pc' = "cleanup"
          /\ UNCHANGED cycles
  /\ client' = "none"
  /\ request' = <<>>
  /\ response' = NoReply
  /\ iter_accepts' = 0
  /\ pending' = FALSE
  /\ sig_tested' = sig_in_loop
  /\ UNCHANGED <<running, registry, socket, now, tmux, scanner, changes,
                 history, seen, before, sig_in_loop, scanned, gap, conn_sends,
                 conn_closes>>

\* scan_tmux_sessions up to the first strtok
ScanBegin ==
  /\ pc = "scan_begin"
  /\ IF tmux.fail_ls
     THEN /\ pc' = "select"
          /\ UNCHANGED <<line, strtok_save, enumerated>>
          /\ cycle_lines' = <<>>
          /\ scanned' = TRUE
     ELSE \E output \in {ExecOutput(ListSessionsRaw(tmux), MAX_BUFFER_SIZE)} :
          \E t \in {StrTok(output)}, lines \in {Tokens(output)} :
             /\ line' = t.tok
             /\ strtok_save' = [buf |-> "output", rest |-> t.rest]
             /\ cycle_lines' = lines
             /\ enumerated' = enumerated \cup {lines[i] : i \in 1..Len(lines)}
             /\ pc' = "scan"
             /\ UNCHANGED scanned
  /\ processed' = {}
  /\ refreshed' = {}
  /\ cur' = 0
  /\ UNCHANGED <<running, registry, socket, now, tmux, pline, pane_count, conn,
                 cycles, changes, accepted, dropped, seen, before, signals,
                 iter_accepts, gap, conn_sends, conn_closes>>

\* One iteration of the scan loop up to the pane loop of capture_all_panes:
\* find-or-create, the two queries, the pane listing.  When no pane loop is
\* entered the iteration runs to its end (last_activity, next token).
ScanSession ==
  /\ pc = "scan"
  /\ line # NULL
  /\ \E ub \in {"intact", "lost"} :
     \E r \in {FindOrCreate(sessions, session_count, line, now)},
        nxt \in {NextSessionLine(strtok_save, ub)} :
        /\ processed' = processed \cup {line}
        /\ session_count' = r.count
        /\ IF r.idx = 0
           THEN /\ sessions' = r.sessions
                /\ dropped' = dropped \cup {line}
                /\ line' = nxt.tok
                /\ strtok_save' = [strtok_save EXCEPT !.rest = nxt.rest]
                /\ UNCHANGED <<pc, cur, pline, pane_count, accepted, refreshed,
                               seen, before>>
           ELSE \E e1 \in {ClearScrollback(UpdateQueries(r.sessions[r.idx], tmux))} :
                \E pane_list \in {ExecOutput(ListPanesRaw(tmux, e1.session_id),
                                               PANE_LIST_SIZE)} :
                LET sf == Target(tmux, e1.session_id).spawn_fail
                    pt == StrTok(pane_list)
                IN /\ accepted' = accepted \cup {<<line, r.idx>>}
                   /\ refreshed' = refreshed \cup {line}
                   /\ cur' = r.idx
                   /\ before' = r.sessions[r.idx]
                   /\ seen' = <<>>
                   /\ pane_count' = 0
                   /\ UNCHANGED dropped
                   /\ IF "list_panes" \in sf \/ Len(pane_list) = 0
                      THEN LET e2 == IF "list_panes" \in sf THEN e1
                                     ELSE ActiveCapture(e1, tmux)
                           IN /\ sessions' =
                                   [r.sessions EXCEPT
                                      ![r.idx] = [e2 EXCEPT !.last_activity = now]]
                              /\ line' = nxt.tok
                              /\ strtok_save' =
                                   [strtok_save EXCEPT !.rest = nxt.rest]
                              /\ UNCHANGED <<pc, pline>>
                      ELSE /\ sessions' = [r.sessions EXCEPT ![r.idx] = e1]
                           /\ pline' = pt.tok
                           /\ strtok_save' =
                                [buf |-> "pane_list", rest |-> pt.rest]
                           /\ pc' = "panes"
                           /\ UNCHANGED line
  /\ UNCHANGED <<running, socket, now, tmux, conn, cycles, changes,
                 cycle_lines, enumerated, signals, serving>>

\* One iteration of the pane loop of capture_all_panes.
PaneStep ==
  /\ pc = "panes"
  /\ PaneLoopCond(pline, sessions[cur].scrollback_len)
  /\ \E junk \in {<<>>, <<"?">>} :
     LET it == PaneIteration(sessions[cur], pline, tmux, junk)
         t == StrTok(strtok_save.rest)
     IN /\ sessions' = [sessions EXCEPT ![cur] = it.e]
        /\ pane_count' = pane_count + it.counted
        /\ seen' = Append(seen, it.obs)
        /\ pline' = t.tok
        /\ strtok_save' = [strtok_save EXCEPT !.rest = t.rest]
  /\ UNCHANGED <<pc, running, session_count, socket, now, tmux, line, cur, conn,
                 cycles, changes, history, before, signals, serving>>

\* The end of capture_all_panes (the fallback), of update_session_context
\* (last_activity) and of the scan loop's iteration (the next token).
PaneEnd ==
  /\ pc = "panes"
  /\ ~PaneLoopCond(pline, sessions[cur].scrollback_len)
  /\ \E ub \in {"intact", "lost"} :
     LET e == Fallback(sessions[cur], pane_count, tmux)
         nxt == NextSessionLine(strtok_save, ub)
     IN /\ sessions' = [sessions EXCEPT ![cur] = [e EXCEPT !.last_activity = now]]
        /\ line' = nxt.tok
        /\ strtok_save' = [strtok_save EXCEPT !.rest = nxt.rest]
  /\ pline' = NULL
  /\ pc' = "scan"
  /\ UNCHANGED <<running, session_count, socket, now, tmux, cur, pane_count,
                 conn, cycles, changes, history, seen, before, signals, serving>>

\* while (line != NULL) ends: scan_tmux_sessions returns
ScanEnd ==
  /\ pc = "scan"
  /\ line = NULL
  /\ pc' = "select"
  /\ scanned' = TRUE
  /\ before' = ZeroSession
  /\ UNCHANGED <<running, registry, socket, now, tmux, scanner, conn, cycles,
                 changes, history, seen, signals, iter_accepts, gap,
                 conn_sends, conn_closes>>

\* select with its 2 s timeout, and accept when the socket is readable
Select ==
  /\ pc = "select"
  /\ \/ /\ now' = now + SELECT_TIMEOUT        \* timeout
        /\ pc' = "loop"
        /\ UNCHANGED <<client, serving>>
     \/ /\ pc' = "loop"                       \* interrupted, or accept fails
        /\ UNCHANGED <<now, client, serving>>
     \/ /\ client' = "open"                   \* accepted
        /\ pc' = "handle"
        /\ iter_accepts' = iter_accepts + 1
        /\ gap' = scanned
        /\ scanned' = FALSE
        /\ conn_sends' = 0
        /\ conn_closes' = 0
        /\ UNCHANGED now
  /\ UNCHANGED <<running, registry, socket, tmux, scanner, request, response,
                 cycles, changes, history, seen, before, signals>>

\* a handler that registers the id of a context request it does not find
RegistryAfterRequestCreating(buffer, ss, count) ==
  IF IsPrefix(CmdContext, buffer)
  THEN LET r == FindOrCreate(ss, count, Drop(buffer, Len(CmdContext)), 0)
       IN [sessions |-> r.sessions, count |-> r.count]
  ELSE [sessions |-> ss, count |-> count]

\* The registry as handle_client_request leaves it: the handler reads
\* g_state.sessions and session_count and assigns to neither.
RegistryAfterRequest(buffer, ss, count) == [sessions |-> ss, count |-> count]

\* main going back to select after a request
AfterHandleSelect == "select"

\* where main continues after handle_client_request returns
AfterHandle == "loop"

\* handle_client_request
HandleClientRequest ==
  /\ pc = "handle"
  /\ \/ /\ request' = <<>>                    \* recv returns 0 or -1
        /\ response' = NoReply
        /\ conn_sends' = conn_sends
        /\ UNCHANGED registry
     \/ \E req \in Requests :
          LET buffer == Take(req, MAX_BUFFER_SIZE - 1)
              reg == RegistryAfterRequest(buffer, sessions, session_count)
          IN /\ request' = buffer
             /\ response' = Dispatch(buffer, sessions, session_count)
             /\ conn_sends' = conn_sends + 1
             /\ sessions' = reg.sessions
             /\ session_count' = reg.count
  /\ client' = "closed"
  /\ conn_closes' = conn_closes + 1
  /\ pc' = AfterHandle
  /\ UNCHANGED <<running, socket, now, tmux, scanner, cycles, changes,
                 history, seen, before, signals, iter_accepts, scanned, gap>>

\* a cleanup that closes the socket and leaves its path
CleanupKeepsPath ==
  /\ pc = "cleanup"
  /\ server_socket' = "closed"
  /\ pc' = "done"
  /\ UNCHANGED <<running, registry, sock_path, now, tmux, scanner, conn,
                 cycles, changes, history, seen, before, signals, serving>>

\* close(g_state.server_socket); unlink(MUXGEIST_SOCKET_PATH); return 0
Cleanup ==
  /\ pc = "cleanup"
  /\ server_socket' = "closed"
  /\ sock_path' = FALSE
  /\ pc' = "done"
  /\ UNCHANGED <<running, registry, now, tmux, scanner, conn, cycles, changes,
                 history, seen, before, signals, serving>>

\* The multiplexer's state changes while the daemon waits in select.
TmuxChange ==
  /\ changes < MaxChanges
  /\ pc = "select"
  /\ \E w \in Worlds \ {tmux} : tmux' = w
  /\ changes' = changes + 1
  /\ UNCHANGED <<pc, running, registry, socket, now, scanner, conn, cycles,
                 history, seen, before, signals, serving>>

\* the steps main takes
Daemon ==
  \/ InstallHandlers
  \/ SetRunning
  \/ UnlinkStale
  \/ SetupSocket
  \/ LoopTest
  \/ ScanBegin
  \/ ScanSession
  \/ PaneStep
  \/ PaneEnd
  \/ ScanEnd
  \/ Select
  \/ HandleClientRequest
  \/ Cleanup

Next ==
  \/ Daemon
  \/ Signal
  \/ TmuxChange

Spec == Init /\ [][Next]_vars

\* main keeps running: every external command, select and recv returns.
\* The multiplexer stays in the state the daemon found it in.
FairNext ==
  \/ Daemon
  \/ Signal

FairSpec == Init /\ [][FairNext]_vars /\ WF_vars(Daemon)

\* ------------------------------------------------------------------ claims
Ids == {sessions[i].session_id : i \in 1..session_count}

\* C1: when a scan has ended, find-or-create has been applied to every line
\* of that cycle's session listing, and every listed line that has an entry
\* was refreshed in the cycle.
C1_EveryListedSessionProcessed ==
  pc = "select" =>
    \A i \in 1..Len(cycle_lines) :
       /\ cycle_lines[i] \in processed
       /\ find_session(sessions, session_count, cycle_lines[i]) # 0
            => cycle_lines[i] \in refreshed

\* The lines of a list response.
ListLines == Tokens(response.head)

C2_Bounded ==
  /\ session_count <= MAX_SESSIONS
  /\ Len(sessions) = session_count
  /\ \A d \in dropped :
       /\ find_session(sessions, session_count, d) = 0
       /\ (request = CmdList /\ response.sent) =>
            \A k \in 1..Len(ListLines) :
               ~IsPrefix(d \o <<" ", "(">>, ListLines[k])

C2_FullStep ==
  session_count = MAX_SESSIONS =>
    /\ session_count' = MAX_SESSIONS
    /\ \A i \in 1..MAX_SESSIONS :
         sessions'[i].session_id = sessions[i].session_id
    /\ (pc = "scan" /\ line # NULL
          /\ \A i \in 1..session_count : sessions[i].session_id # line)
       => sessions' = sessions

\* C2: the registry never holds more than MAX_SESSIONS entries; once it is
\* full, a listed line that no entry has creates no entry, changes no entry
\* and has no line in a list response.
C2_Capacity == []C2_Bounded /\ [][C2_FullStep]_vars

C2_Witness ==
  /\ session_count = MAX_SESSIONS
  /\ dropped # {}
  /\ request = CmdList
  /\ response.sent
  /\ Len(ListLines) = MAX_SESSIONS

\* C3: the session_id values of the registry are pairwise distinct.
C3_DistinctIds ==
  \A i, j \in 1..session_count :
     i # j => sessions[i].session_id # sessions[j].session_id

\* C4: a line find-or-create returned an entry for is found again by
\* find_session, at the same entry, and find-or-create with it adds nothing.
C4_FindReturnsAccepted ==
  \A a \in accepted :
     /\ find_session(sessions, session_count, a[1]) = a[2]
     /\ FindOrCreate(sessions, session_count, a[1], now).count = session_count

\* C5: no scrollback holds captured content of a pane whose title contains
\* "muxgeist".
C5_NoSelfContent ==
  \A i \in 1..session_count :
     \A k \in 1..Len(sessions[i].scrollback) :
        sessions[i].scrollback[k].kind = "content"
          => ~StrStr(sessions[i].scrollback[k].title, Muxgeist)

\* Every pane of the refresh in progress was self-excluded or gave at most
\* 10 bytes.
AllNoise ==
  /\ cur # 0
  /\ seen # <<>>
  /\ \A k \in 1..Len(seen) : seen[k].excluded \/ seen[k].content.n <= NOISE

\* What the capture of the active pane of session id delivers.
Delivered(id) ==
  LET s == Target(tmux, id)
      n == IF s.active = 0 \/ "capture" \in s.spawn_fail THEN 0
           ELSE Min(s.panes[s.active].size, MAX_BUFFER_SIZE - 1)
  IN IF n = 0 THEN <<>>
     ELSE <<Chunk("content", s.panes[s.active].id,
                  s.panes[s.active].title, n)>>

\* C6: when every listed pane is self-excluded or yields at most 10 bytes,
\* nothing is written during the pane loop, and after it the scrollback is
\* exactly the capture of the active pane (non-empty when that is).
C6_Fallback ==
  AllNoise =>
    /\ pc = "panes" =>
         /\ sessions[cur].scrollback = <<>>
         /\ sessions[cur].scrollback_len = 0
         /\ pane_count = 0
    /\ pc = "scan" =>
         /\ sessions[cur].scrollback = Delivered(sessions[cur].session_id)
         /\ sessions[cur].scrollback_len =
              ChunksLen(Delivered(sessions[cur].session_id))
         /\ pane_count = 0

C6_Witness ==
  /\ AllNoise
  /\ pc = "scan"
  /\ \E k \in 1..Len(seen) : seen[k].spawned /\ seen[k].content.n = NOISE
  /\ sessions[cur].scrollback_len > 0
  /\ sessions[cur].scrollback = Delivered(sessions[cur].session_id)

Counted(o) == ~o.excluded /\ o.spawned /\ o.content.n > NOISE

\* The scrollback after the first k panes seen, as the claim has it: a whole
\* header, then the content cut to the space that remains.
RECURSIVE Replay(_)
Replay(k) ==
  IF k = 0 THEN [sb |-> <<>>, len |-> 0]
  ELSE LET p == Replay(k - 1)
           o == seen[k]
           hlen == Len(HeaderText(o.pane_id, o.pane_title))
           room == (MAX_BUFFER_SIZE - 1) - (p.len + hlen)
           n == Min(o.content.n, room)
       IN IF ~Counted(o) THEN p
          ELSE [sb |-> p.sb \o <<Chunk("header", o.pane_id, o.pane_title, hlen),
                                 [o.content EXCEPT !.n = n]>>,
                len |-> p.len + hlen + n]

\* C7: 0 <= scrollback_len <= capacity - 1 always, scrollback_len is the
\* length of the text held; during and after a pane loop the scrollback is
\* the whole headers and the contents cut to the remaining space, and no
\* pane was processed once scrollback_len >= capacity - 500.
C7_Length ==
  /\ \A i \in 1..session_count :
       /\ 0 <= sessions[i].scrollback_len
       /\ sessions[i].scrollback_len <= MAX_BUFFER_SIZE - 1
       /\ sessions[i].scrollback_len = ChunksLen(sessions[i].scrollback)
  /\ (cur # 0 /\ (pc = "panes" \/ pane_count > 0)) =>
       /\ sessions[cur].scrollback = Replay(Len(seen)).sb
       /\ sessions[cur].scrollback_len = Replay(Len(seen)).len
       /\ \A k \in 1..Len(seen) :
            Replay(k - 1).len < MAX_BUFFER_SIZE - RESERVE

C7_Witness ==
  /\ cur # 0
  /\ pc = "panes"
  /\ pline # NULL
  /\ Len(seen) = 1
  /\ seen[1].content.n > (MAX_BUFFER_SIZE - 1)
                           - Len(HeaderText(seen[1].pane_id, seen[1].pane_title))
  /\ sessions[cur].scrollback_len = MAX_BUFFER_SIZE - 1

Digit == <<"0", "1", "2", "3", "4", "5", "6", "7", "8", "9">>

\* C8: a request that is exactly "status" is answered with exactly
\* "OK: <N> sessions tracked", N the number of registry entries.
C8_Status ==
  (client = "closed" /\ request = CmdStatus) =>
    /\ response.sent
    /\ response.body = <<>>
    /\ response.tail = <<>>
    /\ response.head =
         <<"O", "K", ":", " ">>
           \o (IF Len(sessions) < 10 THEN <<Digit[Len(sessions) + 1]>>
               ELSE <<Digit[(Len(sessions) \div 10) + 1],
                      Digit[(Len(sessions) % 10) + 1]>>)
           \o <<" ", "s", "e", "s", "s", "i", "o", "n", "s", " ", "t", "r", "a", "c", "k", "e", "d">>

C8_Witness ==
  /\ client = "closed"
  /\ request = CmdStatus
  /\ session_count >= 10
  /\ response.sent

RECURSIVE FullList(_)
FullList(i) ==
  IF i > session_count THEN <<>>
  ELSE sessions[i].session_id \o <<" ", "(">> \o sessions[i].current_cwd
         \o <<")", NL>> \o FullList(i + 1)

\* C9: a request that is exactly "list" is answered with one line
\* "<session_id> (<current_cwd>)\n" per registry entry, in registry order,
\* with the complete id and cwd.
C9_List ==
  (client = "closed" /\ request = CmdList) =>
    /\ response.sent
    /\ response.head = FullList(1)
    /\ Len(ListLines) = session_count

\* C10: "context:<id>" is answered with the dump of an entry whose
\* session_id is <id> when there is one, with "ERROR: Session not found"
\* otherwise; after a not-found or unknown-command answer the connection is
\* closed and the daemon is in its loop with its socket listening.
C10_Context ==
  /\ (client = "closed" /\ IsPrefix(CmdContext, request)) =>
       LET id == Drop(request, Len(CmdContext))
           hit == {i \in 1..session_count : sessions[i].session_id = id}
       IN /\ response.sent
          /\ IF hit = {}
             THEN /\ response.head = <<"E", "R", "R", "O", "R", ":", " ", "S", "e", "s", "s", "i", "o", "n", " ", "n", "o", "t", " ", "f", "o", "u", "n", "d">>
                  /\ response.body = <<>>
                  /\ response.tail = <<>>
             ELSE \E i \in hit :
                    /\ IsPrefix(<<"S", "e", "s", "s", "i", "o", "n", ":", " ">> \o id
                                  \o <<NL, "C", "W", "D", ":", " ">>
                                  \o sessions[i].current_cwd
                                  \o <<NL, "P", "a", "n", "e", ":", " ">>
                                  \o sessions[i].current_pane
                                  \o <<NL, "L", "a", "s", "t", " ", "A", "c", "t", "i", "v", "i", "t", "y", ":", " ">>,
                                response.head)
                    /\ response.body =
                         TakeChunks(sessions[i].scrollback,
                                    ChunksLen(response.body))
  /\ (response.head \in {<<"E", "R", "R", "O", "R", ":", " ", "S", "e", "s", "s", "i", "o", "n", " ", "n", "o", "t", " ", "f", "o", "u", "n", "d">>,
                         <<"E", "R", "R", "O", "R", ":", " ", "U", "n", "k", "n", "o", "w", "n", " ", "c", "o", "m", "m", "a", "n", "d">>}) =>
       /\ pc = "loop"
       /\ client = "closed"
       /\ server_socket = "listening"

C10_Witness ==
  /\ client = "closed"
  /\ request = CmdContext
  /\ session_count > 0
  /\ response.head = <<"E", "R", "R", "O", "R", ":", " ", "S", "e", "s", "s", "i", "o", "n", " ", "n", "o", "t", " ", "f", "o", "u", "n", "d">>
  /\ pc = "loop"

C10_WitnessFound ==
  /\ client = "closed"
  /\ request = CmdContext \o Main
  /\ Main \in Ids
  /\ response.body # <<>>

ErrorPrefix == <<"E", "R", "R", "O", "R">>

\* C11: a context request for a registered session is answered with the
\* five fields and the "Scrollback:" line followed by the entire scrollback,
\* so that the text after that line has the length the dump reports, for
\* every scrollback length from 0 to the capacity of the scrollback.
C11_FullDump ==
  (client = "closed" /\ IsPrefix(CmdContext, request)) =>
    \A i \in 1..session_count :
      (/\ sessions[i].session_id = Drop(request, Len(CmdContext))
       /\ \A j \in 1..(i - 1) : sessions[j].session_id # sessions[i].session_id) =>
        /\ response.sent
        /\ response.head = ContextHead(sessions[i])
        /\ response.body = sessions[i].scrollback
        /\ ChunksLen(response.body) = sessions[i].scrollback_len

\* C12: a step of the poll cycle keeps every entry in its place with its
\* session_id, removes none, and changes no field of an entry whose
\* session_id is not a line of this cycle's session listing (cut to the 63
\* characters an entry holds).
C12_Step ==
  \A i \in 1..session_count :
    /\ i <= session_count'
    /\ sessions'[i].session_id = sessions[i].session_id
    /\ (\A k \in 1..Len(cycle_lines) :
          Take(cycle_lines[k], SESSION_ID_SIZE - 1) # sessions[i].session_id) =>
         sessions'[i] = sessions[i]

C12_AppendOnly == [][C12_Step]_vars

C13_Bounded ==
  /\ sig_in_loop => running = 0
  /\ sig_tested => pc \in {"cleanup", "done"}
  /\ pc \in {"cleanup", "done"} => running = 0

C13_TestAtTop == (pc' = "cleanup" /\ pc # "cleanup") => pc = "loop"

\* C13: the running flag is tested only at the top of a loop iteration; a
\* signal delivered during the loop clears it for good, the iteration in
\* progress runs on, and once main has tested the flag after the signal it
\* is in cleanup: no scan begins after that test, so at most one scan (the
\* one whose test came before the signal) begins after the signal.
C13_Shutdown == []C13_Bounded /\ [][C13_TestAtTop]_vars

C13_Witness ==
  /\ pc = "panes"
  /\ sig_in_loop
  /\ running = 0
  /\ cycles < MaxCycles

C14_Released == pc = "done" => server_socket = "closed" /\ ~sock_path

C14_StartupUnlink == pc = "socket" => ~sock_path

\* C14: when every external command, select and recv returns, a signal
\* delivered during the loop leads to main leaving the loop and returning;
\* when it has, the listening socket is closed and the socket path is
\* removed; at startup the path is removed before the socket is bound.
C14_Shutdown ==
  /\ sig_in_loop ~> pc = "done"
  /\ [](C14_Released /\ C14_StartupUnlink)

C14_Witness ==
  /\ pc = "done"
  /\ sig_in_loop
  /\ cycles > 0
  /\ server_socket = "closed"
  /\ ~sock_path

\* C15: within an iteration the scan has returned before a connection is
\* accepted, at most one connection is accepted per iteration, a scan has
\* completed between any two accepts, and an accepted connection is sent at
\* most one response (none when recv returns no bytes or fails) and is
\* closed exactly once.
C15_OneRequestPerScan ==
  /\ iter_accepts <= 1
  /\ client # "none" => gap /\ iter_accepts = 1
  /\ client = "open" => pc = "handle"
  /\ pc \in {"scan_begin", "scan", "panes"} => client = "none"
  /\ conn_sends <= 1
  /\ conn_closes <= 1
  /\ client = "open" => conn_sends = 0 /\ conn_closes = 0
  /\ client = "closed" =>
       /\ conn_closes = 1
       /\ conn_sends = (IF response.sent THEN 1 ELSE 0)
       /\ request = <<>> => conn_sends = 0

C15_Witness ==
  /\ client = "closed"
  /\ cycles = MaxCycles
  /\ request = <<>>
  /\ conn_sends = 0
  /\ conn_closes = 1
  /\ pc = "loop"

\* C16: handle_client_request leaves g_state.sessions and
\* g_state.session_count as they were.
C16_ReadOnly == [][pc = "handle" => registry' = registry]_vars

C16_Witness ==
  /\ client = "closed"
  /\ request = CmdContext \o <<"g", "h", "o", "s", "t">>
  /\ session_count > 0
  /\ response.sent

\* C17: when popen fails for the pane id query or for the working directory
\* query, that field keeps the value it had before the refresh, the other
\* field is what tmux answers, the capture and last_activity are as in any
\* refresh; no failure is ever sent to a client: a response is an error only
\* for an unknown command or an unregistered session id.
C17_NonFatalQueries ==
  /\ (cur # 0 /\ pc \in {"scan", "panes"}) =>
       LET e == sessions[cur]
           t == Target(tmux, e.session_id)
       IN /\ e.current_pane =
               IF "pane_q" \in t.spawn_fail THEN before.current_pane
               ELSE IF t.active = 0 THEN <<>> ELSE Take(t.pane, PANE_SIZE - 1)
          /\ e.current_cwd =
               IF "cwd_q" \in t.spawn_fail THEN before.current_cwd
               ELSE IF t.active = 0 THEN <<>> ELSE Take(t.cwd, PATH_MAX - 1)
          /\ pc = "scan" => e.last_activity = now
          /\ (pc = "scan" /\ t.spawn_fail \subseteq {"pane_q", "cwd_q"}) =>
               e.scrollback = IF pane_count > 0 THEN Replay(Len(seen)).sb
                              ELSE Delivered(e.session_id)
  /\ (client = "closed" /\ response.sent /\ IsPrefix(ErrorPrefix, response.head)) =>
       /\ request # CmdStatus
       /\ request # CmdList
       /\ IsPrefix(CmdContext, request) =>
            Drop(request, Len(CmdContext)) \notin Ids

C17_Witness ==
  /\ cur # 0
  /\ pc = "scan"
  /\ "pane_q" \in Target(tmux, sessions[cur].session_id).spawn_fail
  /\ before.current_pane # <<>>
  /\ sessions[cur].current_pane = before.current_pane
  /\ sessions[cur].current_pane # Target(tmux, sessions[cur].session_id).pane
  /\ sessions[cur].current_cwd = Target(tmux, sessions[cur].session_id).cwd
  /\ sessions[cur].current_cwd # before.current_cwd
  /\ sessions[cur].scrollback # <<>>
  /\ sessions[cur].last_activity = now
  /\ now > before.last_activity

\* C18: during and after a refresh the scrollback holds what this refresh
\* captured and nothing else, whatever the pane listing and the captures
\* did: the panes replayed, or the active pane's capture, or nothing.
C18_Replaced ==
  (cur # 0 /\ pc \in {"scan", "panes"}) =>
    LET e == sessions[cur]
        t == Target(tmux, e.session_id)
    IN /\ e.scrollback =
            IF pc = "panes" \/ pane_count > 0 THEN Replay(Len(seen)).sb
            ELSE IF "list_panes" \in t.spawn_fail THEN <<>>
            ELSE Delivered(e.session_id)
       /\ e.scrollback_len = ChunksLen(e.scrollback)

C18_Witness ==
  /\ cur # 0
  /\ pc = "scan"
  /\ "list_panes" \in Target(tmux, sessions[cur].session_id).spawn_fail
  /\ before.scrollback # <<>>
  /\ sessions[cur].scrollback = <<>>
  /\ sessions[cur].scrollback_len = 0

\* C19: a shutdown request is never lost: from the moment the handler has
\* cleared running until main next tests it, running stays cleared,
\* wherever main was when the signal arrived once the handlers are installed.
C19_ShutdownNotLost == pending => running = 0

\* C20: every session_id of the registry is a line some session listing
\* returned, cut to the 63 characters an entry holds.
C20_IdsFromEnumeration ==
  \A i \in 1..session_count :
    \E l \in enumerated : sessions[i].session_id = Take(l, SESSION_ID_SIZE - 1)

====
